---- MODULE Spec2Model ----
(***************************************************************************)
(* Qutils: cleaner.py (session time grid, gap detector, cleaning pipeline) *)
(* and merger.py (per-day merge resolver).                                 *)
(*                                                                         *)
(* A time-of-day (datetime.time) is a number of seconds since midnight, a  *)
(* calendar date is a day ordinal >= 1, a datetime is a record             *)
(* [date, tod].  Strings that the code rewrites (column names, tickers,    *)
(* time fields) are sequences of one-character strings or digits.          *)
(***************************************************************************)
EXTENDS Integers, Sequences, FiniteSets, TLC

VARIABLES
    \* get_full_list_of_daily_bar_times, run step by step
    start_time, end_time, period_min, skip_daily_clearing,
    var_dt, full_list_of_daily_bar_times, grid_pc,
    \* intraday_data_check
    gap_df, gap_period, full_times_set, report, gap_pc,
    \* the two command-line programs
    prog, args, pc, exit_status, error, written,
    df, out, again,
    df1, df2, df1_dates, df2_dates, dest_df

gridVars == <<start_time, end_time, period_min, skip_daily_clearing,
              var_dt, full_list_of_daily_bar_times, grid_pc>>
gapVars == <<gap_df, gap_period, full_times_set, report, gap_pc>>
runVars == <<prog, args, pc, exit_status, error, written>>
cleanVars == <<df, out, again>>
mergeVars == <<df1, df2, df1_dates, df2_dates, dest_df>>
vars == <<gridVars, gapVars, runVars, cleanVars, mergeVars>>

----------------------------------------------------------------------------
(* Bounds *)

\* days the running datetime of the grid loop may advance past the first
\* day before datetime arithmetic overflows (datetime.max in the program)
MaxDay == 3
\* calendar dates are 1..MaxDate
MaxDate == 2
\* rows of a raw file given to the cleaner
MaxRows == 3
\* rows of one cleaned series given to the merger
MaxSeriesRows == 2

----------------------------------------------------------------------------
(* datetime.time / datetime.datetime *)

HMS(h, m, s) == h * 3600 + m * 60 + s
DaySeconds == HMS(24, 0, 0)
Hour(t) == t \div 3600
Minute(t) == (t % 3600) \div 60

MKT_OPEN == HMS(10, 0, 0)
MKT_CLOSE == HMS(18, 40, 0)

\* KNOWN_PERIODS: the 'per' values of a file and the period in minutes each
\* maps to; 0 stands for None (symbolic or unknown period)
KNOWN_PERIODS(p) ==
    CASE p = "1" -> 1 [] p = "2" -> 2 [] p = "5" -> 5 [] p = "10" -> 10
      [] p = "15" -> 15 [] p = "30" -> 30 [] p = "60" -> 60
      [] OTHER -> 0

Null == [status |-> "none"]

----------------------------------------------------------------------------
(* get_full_list_of_daily_bar_times *)

\* while var_dt.time() < end_time
LoopCond(v, e) == v.tod < e

\* the condition under which the current time is appended
KeepBarNoMinuteTest(v, skip) == skip \/ Hour(v.tod) # 14

KeepBar(v, skip) ==
    skip \/ Hour(v.tod) # 14 \/ Minute(v.tod) \notin {0, 1, 2, 3, 4}

\* var_dt += timedelta(minutes=period_min); the date part carries
AddMinutes(v, p) ==
    LET t == v.tod + p * 60
    IN  [day |-> v.day + t \div DaySeconds, tod |-> t % DaySeconds]

\* the function as a whole, for the callers that need its value.
\* VarDtAt: var_dt after k iterations of the loop
VarDtAt(s, p, k) == AddMinutes([day |-> 0, tod |-> s], k * p)

\* the most iterations before the date of var_dt passes MaxDay
MaxIter(p) == ((MaxDay + 1) * DaySeconds) \div (p * 60) + 1

\* the iteration at which the loop ends: the first k at which the loop
\* condition fails or the addition overflows
LoopEnd(s, e, p) ==
    CHOOSE k \in 0..MaxIter(p) :
        /\ ~LoopCond(VarDtAt(s, p, k), e) \/ VarDtAt(s, p, k).day > MaxDay
        /\ \A j \in 0..(k - 1) :
               LoopCond(VarDtAt(s, p, j), e) /\ VarDtAt(s, p, j).day <= MaxDay

\* [status, list] with status "returned", "AssertionError", "OverflowError"
get_full_list_of_daily_bar_times(s, e, p, skip) ==
    IF ~(s <= e) THEN [status |-> "AssertionError", list |-> <<>>]
    ELSE LET n == LoopEnd(s, e, p)
             visited == [k \in 1..n |-> VarDtAt(s, p, k - 1)]
             kept == SelectSeq(visited, LAMBDA v : KeepBar(v, skip))
         IN  IF VarDtAt(s, p, n).day > MaxDay
             THEN [status |-> "OverflowError", list |-> <<>>]
             ELSE [status |-> "returned",
                   list |-> [i \in 1..Len(kept) |-> kept[i].tod]]

\* inputs of the step-by-step run
GridStarts == {HMS(10, 0, 0), HMS(13, 58, 30), HMS(14, 0, 0), HMS(23, 0, 0)}
GridEnds == {HMS(13, 58, 30), HMS(14, 7, 0), HMS(18, 40, 0),
             HMS(23, 50, 0), HMS(23, 59, 0)}
GridPeriods == {1, 2, 5, 50, 60}

GridIdle ==
    /\ start_time = 0 /\ end_time = 0 /\ period_min = 0
    /\ skip_daily_clearing = FALSE
    /\ var_dt = [day |-> 0, tod |-> 0]
    /\ full_list_of_daily_bar_times = <<>>
    /\ grid_pc = "idle"

GapIdle ==
    /\ gap_df = {} /\ gap_period = 0 /\ full_times_set = {}
    /\ report = <<>> /\ gap_pc = "idle"

RunIdle ==
    /\ prog = "none" /\ args = Null /\ pc = "idle" /\ exit_status = -1
    /\ error = "none" /\ written = Null
    /\ df = Null /\ out = Null /\ again = Null
    /\ df1 = Null /\ df2 = Null /\ df1_dates = {} /\ df2_dates = {}
    /\ dest_df = Null

InitGrid ==
    /\ start_time \in GridStarts
    /\ end_time \in GridEnds
    /\ period_min \in GridPeriods
    /\ skip_daily_clearing \in BOOLEAN
    /\ var_dt = [day |-> 0, tod |-> 0]
    /\ full_list_of_daily_bar_times = <<>>
    /\ grid_pc = "assert"
    /\ GapIdle /\ RunIdle

\* assert start_time <= end_time; var_dt = combine(today, start_time)
GridAssert ==
    /\ grid_pc = "assert"
    /\ IF start_time <= end_time
       THEN /\ grid_pc' = "loop"
            /\ var_dt' = [day |-> 0, tod |-> start_time]
       ELSE /\ grid_pc' = "AssertionError"
            /\ UNCHANGED var_dt
    /\ UNCHANGED <<start_time, end_time, period_min, skip_daily_clearing,
                   full_list_of_daily_bar_times>>
    /\ UNCHANGED <<gapVars, runVars, cleanVars, mergeVars>>

\* one iteration of the while loop
GridStep ==
    /\ grid_pc = "loop"
    /\ LoopCond(var_dt, end_time)
    /\ IF AddMinutes(var_dt, period_min).day > MaxDay
       THEN /\ grid_pc' = "OverflowError"
            /\ UNCHANGED <<var_dt, full_list_of_daily_bar_times>>
       ELSE /\ full_list_of_daily_bar_times' =
                   IF KeepBar(var_dt, skip_daily_clearing)
                   THEN Append(full_list_of_daily_bar_times, var_dt.tod)
                   ELSE full_list_of_daily_bar_times
            /\ var_dt' = AddMinutes(var_dt, period_min)
            /\ UNCHANGED grid_pc
    /\ UNCHANGED <<start_time, end_time, period_min, skip_daily_clearing>>
    /\ UNCHANGED <<gapVars, runVars, cleanVars, mergeVars>>

\* the loop condition fails: return full_list_of_daily_bar_times
GridReturn ==
    /\ grid_pc = "loop"
    /\ ~LoopCond(var_dt, end_time)
    /\ grid_pc' = "returned"
    /\ UNCHANGED <<start_time, end_time, period_min, skip_daily_clearing,
                   var_dt, full_list_of_daily_bar_times>>
    /\ UNCHANGED <<gapVars, runVars, cleanVars, mergeVars>>

NextGrid == GridAssert \/ GridStep \/ GridReturn

SpecGrid == InitGrid /\ [][NextGrid]_vars

\* the interpreter always runs the next statement of the function
SpecGridFair == SpecGrid /\ WF_vars(NextGrid)


----------------------------------------------------------------------------
(* intraday_data_check *)

Range(f) == {f[i] : i \in DOMAIN f}
SetMin(S) == CHOOSE x \in S : \A y \in S : x <= y
SetMax(S) == CHOOSE x \in S : \A y \in S : y <= x

\* sorted(S) for a set of numbers
RECURSIVE Sorted(_)
Sorted(S) == IF S = {} THEN <<>>
             ELSE <<SetMin(S)>> \o Sorted(S \ {SetMin(S)})

\* the warning line of one date; an absent part is the empty tuple;
\* sorted(list(s))[0] and [-1] are the least and the greatest element of s
WarningLine(date, times_set, full) ==
    LET missing_bars_set == full \ times_set
        irregular_bars_set == times_set \ full
    IN  [date |-> date,
         missing |-> IF missing_bars_set # {}
                     THEN <<Cardinality(missing_bars_set), Cardinality(full),
                            SetMin(missing_bars_set),
                            SetMax(missing_bars_set)>>
                     ELSE <<>>,
         irregular |-> IF irregular_bars_set # {}
                       THEN <<Cardinality(irregular_bars_set),
                              SetMax(irregular_bars_set)>>
                       ELSE <<>>]

RECURSIVE WarningLines(_, _, _)
WarningLines(dates, datetimes, full) ==
    IF dates = <<>> THEN <<>>
    ELSE LET date == Head(dates)
             times_set == {x.tod : x \in {y \in datetimes : y.date = date}}
         IN  (IF (full \ times_set) # {} \/ (times_set \ full) # {}
              THEN <<WarningLine(date, times_set, full)>> ELSE <<>>)
             \o WarningLines(Tail(dates), datetimes, full)

\* a mutation: a date is reported only when bars are missing
RECURSIVE WarningLinesMissingOnly(_, _, _)
WarningLinesMissingOnly(dates, datetimes, full) ==
    IF dates = <<>> THEN <<>>
    ELSE LET date == Head(dates)
             times_set == {x.tod : x \in {y \in datetimes : y.date = date}}
         IN  (IF (full \ times_set) # {}
              THEN <<WarningLine(date, times_set, full)>> ELSE <<>>)
             \o WarningLinesMissingOnly(Tail(dates), datetimes, full)

\* datetimes: the values of df['datetime']; stock: the global args.stock
\* the result holds what the function prints
IntradayDataCheckMissingOnly(datetimes, period, stock) ==
    LET full == Range(get_full_list_of_daily_bar_times(
                          MKT_OPEN, MKT_CLOSE, period, stock).list)
        lines == WarningLinesMissingOnly(Sorted({x.date : x \in datetimes}),
                                         datetimes, full)
    IN  [full_times_set |-> full, lines |-> lines, ok |-> lines = <<>>]

intraday_data_check(datetimes, period, stock) ==
    LET full == Range(get_full_list_of_daily_bar_times(
                          MKT_OPEN, MKT_CLOSE, period, stock).list)
        lines == WarningLines(Sorted({x.date : x \in datetimes}),
                              datetimes, full)
    IN  [full_times_set |-> full, lines |-> lines, ok |-> lines = <<>>]

\* argparse.Namespace of either program; a date option not given is 0
DefaultArgs ==
    [start_date |-> 0, end_date |-> 0, extended_hours |-> FALSE,
     keep_date_time |-> FALSE, stock |-> FALSE, check_only |-> FALSE,
     interactive |-> FALSE]

\* inputs: per date, the bars of a regular session with some bars removed
\* and some bars added, or no bar at all
SessionSlots(p) ==
    {t \in {MKT_OPEN + k * p * 60 : k \in 0..((MKT_CLOSE - MKT_OPEN) \div (p * 60))} :
        t < MKT_CLOSE}
RemovedSets == {{}, {HMS(12, 0, 0)},
                {HMS(10, 0, 0), HMS(14, 0, 0), HMS(18, 0, 0)}}
ExtraSets == {{}, {HMS(14, 2, 0)}, {HMS(9, 55, 0), HMS(18, 40, 0)}}
DayBars(p) == {{}} \cup {(SessionSlots(p) \ r) \cup e : r \in RemovedSets, e \in ExtraSets}
GapFrames(p) ==
    {UNION {{[date |-> d, tod |-> t] : t \in f[d]} : d \in 1..MaxDate} :
        f \in [1..MaxDate -> DayBars(p)]}
GapPeriods == {1, 2, 5, 10, 15, 30, 60}

InitGap ==
    /\ gap_period \in GapPeriods
    /\ gap_df \in GapFrames(gap_period)
    /\ full_times_set = {} /\ report = <<>> /\ gap_pc = "call"
    /\ GridIdle
    /\ prog = "none" /\ pc = "idle" /\ exit_status = -1
    /\ error = "none" /\ written = Null
    /\ args \in {[DefaultArgs EXCEPT !.stock = b] : b \in BOOLEAN}
    /\ df = Null /\ out = Null /\ again = Null
    /\ df1 = Null /\ df2 = Null /\ df1_dates = {} /\ df2_dates = {}
    /\ dest_df = Null

GapCheck ==
    /\ gap_pc = "call"
    /\ LET r == intraday_data_check(gap_df, gap_period, args.stock)
       IN  /\ full_times_set' = r.full_times_set
           /\ report' = r.lines
           /\ gap_pc' = IF r.ok THEN "ok" ELSE "warned"
    /\ UNCHANGED <<gap_df, gap_period>>
    /\ UNCHANGED <<gridVars, runVars, cleanVars, mergeVars>>

NextGap == GapCheck

SpecGap == InitGap /\ [][NextGap]_vars


----------------------------------------------------------------------------
(* Strings rewritten by process_dataframe *)

Lower(c) ==
    CASE c = "A" -> "a" [] c = "C" -> "c" [] c = "D" -> "d" [] c = "E" -> "e"
      [] c = "I" -> "i" [] c = "K" -> "k" [] c = "L" -> "l" [] c = "M" -> "m"
      [] c = "O" -> "o" [] c = "P" -> "p" [] c = "R" -> "r" [] c = "T" -> "t"
      [] c = "V" -> "v" [] OTHER -> c

\* re.sub(r'[<>]', '', x).lower()
NormalizeColumn(x) ==
    LET y == SelectSeq(x, LAMBDA c : c \notin {"<", ">"})
    IN  [i \in 1..Len(y) |-> Lower(y[i])]

cTICKER == <<"t", "i", "c", "k", "e", "r">>
cPER == <<"p", "e", "r">>
cDATE == <<"d", "a", "t", "e">>
cTIME == <<"t", "i", "m", "e">>
cDATETIME == <<"d", "a", "t", "e", "t", "i", "m", "e">>
cVOL == <<"v", "o", "l">>

SPBFUT == <<"S", "P", "B", "F", "U", "T">>
SPFB == <<"S", "P", "F", "B">>

HasAt(x, i, tok) ==
    /\ i + Len(tok) - 1 <= Len(x)
    /\ \A k \in 1..Len(tok) : x[i + k - 1] = tok[k]

\* the position after a match of the token at i followed by .? (greedy)
AfterToken(x, i, tok) ==
    IF i + Len(tok) <= Len(x) THEN i + Len(tok) + 1 ELSE i + Len(tok)

\* a match of .?tok.? starting at i: the position after it, or 0 for no
\* match; the leading .? first tries to take one character
MatchToken(x, i, tok) ==
    IF i <= Len(x) /\ HasAt(x, i + 1, tok) THEN AfterToken(x, i + 1, tok)
    ELSE IF HasAt(x, i, tok) THEN AfterToken(x, i, tok)
    ELSE 0

\* .?SPBFUT.?|.?SPFB.? at i: the first alternative that matches
MatchAt(x, i) ==
    IF MatchToken(x, i, SPBFUT) # 0 THEN MatchToken(x, i, SPBFUT)
    ELSE MatchToken(x, i, SPFB)

\* re.sub(pattern, '', x): the leftmost non-overlapping matches are removed
\* in one left-to-right scan
RECURSIVE ReSubFrom(_, _)
ReSubFrom(x, i) ==
    IF i > Len(x) THEN <<>>
    ELSE IF MatchAt(x, i) # 0 THEN ReSubFrom(x, MatchAt(x, i))
    ELSE <<x[i]>> \o ReSubFrom(x, i + 1)

RECURSIVE LStrip(_)
LStrip(x) == IF x # <<>> /\ Head(x) = " " THEN LStrip(Tail(x)) ELSE x
RECURSIVE RStrip(_)
RStrip(x) == IF x # <<>> /\ x[Len(x)] = " "
             THEN RStrip(SubSeq(x, 1, Len(x) - 1)) ELSE x

\* re.sub(r'.?SPBFUT.?|.?SPFB.?', '', x).strip()
ConvertTicker(x) == RStrip(LStrip(ReSubFrom(x, 1)))

\* date.fromisoformat part of the 'date' + ' ' + 'time' string: the dates of
\* the model are the days of January 2023, written 202301DD; 0: ValueError
ParseDate(x) ==
    IF /\ Len(x) = 8
       /\ SubSeq(x, 1, 6) = <<2, 0, 2, 3, 0, 1>>
       /\ x[7] * 10 + x[8] \in 1..31
    THEN x[7] * 10 + x[8] ELSE 0

\* lambda x: '0' + x if len(x) == 5 else x
PadTime(x) == IF Len(x) = 5 THEN <<0>> \o x ELSE x

\* the time part, HHMMSS or HHMM; -1: ValueError
ParseTime(x) ==
    IF Len(x) \notin {4, 6} THEN -1
    ELSE LET h == x[1] * 10 + x[2]
             m == x[3] * 10 + x[4]
             sec == IF Len(x) = 6 THEN x[5] * 10 + x[6] ELSE 0
         IN  IF h < 24 /\ m < 60 /\ sec < 60 THEN HMS(h, m, sec) ELSE -1

----------------------------------------------------------------------------
(* Data frames of the cleaner *)

\* a frame: [columns, vol_dtype, rows]; a row has a field per column the
\* model knows, named as after the normalisation of the column names; the
\* field of a column the frame does not have holds the value below
NoDate == <<>>
NoTime == <<>>
NoDatetime == [date |-> 0, tod |-> 0]
NoVol == [n |-> 0, frac |-> FALSE, nan |-> FALSE]

Key(dtm) == dtm.date * DaySeconds + dtm.tod

SeqMap(Op(_), l) == [i \in DOMAIN l |-> Op(l[i])]

\* df[mask]
Filter(f, Test(_)) == [f EXCEPT !.rows = SelectSeq(f.rows, Test)]

\* df['datetime'].duplicated().sum() is not zero
HasDuplicates(rows) ==
    \E i, j \in DOMAIN rows : i < j /\ rows[i].datetime = rows[j].datetime

\* a mutation: the last occurrence is kept
DropDuplicatesKeepLast(rows) ==
    LET keep == {i \in DOMAIN rows :
                    \A j \in DOMAIN rows : j > i => rows[j].datetime # rows[i].datetime}
        RECURSIVE Take(_)
        Take(i) == IF i > Len(rows) THEN <<>>
                   ELSE (IF i \in keep THEN <<rows[i]>> ELSE <<>>) \o Take(i + 1)
    IN  Take(1)

\* df.drop_duplicates('datetime'): the first occurrence is kept
drop_duplicates(rows) ==
    LET keep == {i \in DOMAIN rows :
                    \A j \in DOMAIN rows : j < i => rows[j].datetime # rows[i].datetime}
        RECURSIVE Take(_)
        Take(i) == IF i > Len(rows) THEN <<>>
                   ELSE (IF i \in keep THEN <<rows[i]>> ELSE <<>>) \o Take(i + 1)
    IN  Take(1)

\* a row put into a list sorted by datetime, after the rows that are not
\* later than it
RECURSIVE Insert(_, _)
Insert(r, l) ==
    IF l = <<>> THEN <<r>>
    ELSE IF Key(r.datetime) < Key(Head(l).datetime) THEN <<r>> \o l
    ELSE <<Head(l)>> \o Insert(r, Tail(l))

\* df.sort_values('datetime'); rows of equal datetime keep their order
RECURSIVE sort_values(_)
sort_values(rows) ==
    IF rows = <<>> THEN <<>>
    ELSE Insert(rows[Len(rows)], sort_values(SubSeq(rows, 1, Len(rows) - 1)))

----------------------------------------------------------------------------
(* process_dataframe *)

\* The function is a sequence of statements, each of which gives df a new
\* value or raises.  A stage is [status, error, df]: the frame after a
\* statement, or the error it raised.

Raised(err) == [status |-> "raised", error |-> err, df |-> Null]

\* the next statement: Error(df) is the exception it raises on df, or
\* "none", and Step(df) is the frame it leaves; after a raise nothing runs
Then(stage, Error(_), Step(_)) ==
    CHOOSE next \in {IF s.status # "ok" THEN s
                     ELSE IF Error(s.df) # "none" THEN Raised(Error(s.df))
                     ELSE [s EXCEPT !.df = Step(s.df)] : s \in {stage}} : TRUE

\* column names without '<', '>' and in lower case
NormalizeColumns(f) ==
    [f EXCEPT !.columns = {NormalizeColumn(c) : c \in f.columns}]

\* the period is unique
PeriodError(f) ==
    IF cPER \notin f.columns THEN "KeyError: 'per'"
    ELSE IF Cardinality({f.rows[i].per : i \in DOMAIN f.rows}) # 1
    THEN "Period data is not unique"
    ELSE "none"

\* ticker without SPBFUT, SPFB
TickerError(f) == IF cTICKER \notin f.columns THEN "KeyError: 'ticker'" ELSE "none"
ConvertTickers(f) ==
    [f EXCEPT !.rows = SeqMap(LAMBDA r : [r EXCEPT !.ticker = ConvertTicker(r.ticker)],
                              f.rows)]

\* the 'datetime' column, from 'date' and 'time' or as it is
DatetimeError(f) ==
    IF {cDATE, cTIME} \subseteq f.columns
    THEN IF \E i \in DOMAIN f.rows : \/ ParseDate(f.rows[i].date) = 0
                                     \/ ParseTime(PadTime(f.rows[i].time)) = -1
         THEN "ValueError: date or time" ELSE "none"
    ELSE IF cDATETIME \in f.columns
    THEN IF \E i \in DOMAIN f.rows : f.rows[i].datetime.date = 0
         THEN "ValueError: datetime" ELSE "none"
    ELSE "Neither date, time nor datetime in source data"
CreateDatetime(f) ==
    IF {cDATE, cTIME} \subseteq f.columns
    THEN [f EXCEPT
            !.columns = @ \cup {cDATETIME},
            !.rows = SeqMap(LAMBDA r : [r EXCEPT !.datetime =
                                [date |-> ParseDate(r.date),
                                 tod |-> ParseTime(PadTime(r.time))]],
                            f.rows)]
    ELSE f

\* 'vol' as integers: astype(int) drops the fraction and raises on NaN
VolError(f) ==
    IF /\ cVOL \in f.columns /\ f.vol_dtype # "int64"
       /\ \E i \in DOMAIN f.rows : f.rows[i].vol.nan
    THEN "ValueError: vol" ELSE "none"
CastVol(f) ==
    IF cVOL \in f.columns /\ f.vol_dtype # "int64"
    THEN [f EXCEPT !.vol_dtype = "int64",
                   !.rows = SeqMap(LAMBDA r : [r EXCEPT !.vol.frac = FALSE], f.rows)]
    ELSE f

\* without the 'date' and 'time' columns
DropDateTime(f, a) ==
    IF ~a.keep_date_time /\ {cDATE, cTIME} \subseteq f.columns
    THEN [f EXCEPT !.columns = @ \ {cDATE, cTIME},
                   !.rows = SeqMap(LAMBDA r : [r EXCEPT !.date = NoDate,
                                                        !.time = NoTime],
                                   f.rows)]
    ELSE f

\* the optional start and end dates
DropBefore(f, a) ==
    IF a.start_date # 0
    THEN Filter(f, LAMBDA r : r.datetime.date >= a.start_date) ELSE f
DropAfter(f, a) ==
    IF a.end_date # 0
    THEN Filter(f, LAMBDA r : r.datetime.date <= a.end_date) ELSE f

\* extended hours
DropExtendedHours(f, a) ==
    IF a.extended_hours THEN f
    ELSE Filter(f, LAMBDA r : r.datetime.tod >= MKT_OPEN /\ r.datetime.tod < MKT_CLOSE)

\* duplicates
DropDuplicates(f) ==
    IF HasDuplicates(f.rows) THEN [f EXCEPT !.rows = drop_duplicates(f.rows)]
    ELSE f

SortByDatetime(f) == [f EXCEPT !.rows = sort_values(f.rows)]

NoError(f) == "none"
Same(f) == f

\* the warning lines of the intraday check, run for the minute-like periods
CheckLines(f, period, a) ==
    IF KNOWN_PERIODS(period) # 0
    THEN intraday_data_check({f.rows[i].datetime : i \in DOMAIN f.rows},
                             KNOWN_PERIODS(period), a.stock).lines
    ELSE <<>>

\* f: the frame passed in; a: args; answer_n: the answer to the prompt is
\* 'n' (read only when args.interactive).  The result is
\* [status, error, df, lines]: status "returned" with the frame returned
\* and the warning lines printed, "raised" with the error, or "exit" when
\* the prompt stops the program
process_dataframe(f, a, answer_n) ==
    LET s0 == [status |-> "ok", error |-> "none", df |-> f]
        s1 == Then(s0, NoError, NormalizeColumns)
        s2 == Then(s1, PeriodError, Same)
        s3 == Then(s2, TickerError, ConvertTickers)
        s4 == Then(s3, DatetimeError, CreateDatetime)
        s5 == Then(s4, VolError, CastVol)
        s6 == Then(s5, NoError, LAMBDA x : DropDateTime(x, a))
        s7 == Then(s6, NoError, LAMBDA x : DropBefore(x, a))
        s8 == Then(s7, NoError, LAMBDA x : DropAfter(x, a))
        s9 == Then(s8, NoError, LAMBDA x : DropExtendedHours(x, a))
        s10 == Then(s9, NoError, DropDuplicates)
        s11 == Then(s10, NoError, SortByDatetime)
    IN  CHOOSE r \in
            {IF s.status # "ok" THEN [s EXCEPT !.df = Null] @@ [lines |-> <<>>]
             ELSE IF a.interactive /\ answer_n
             THEN [status |-> "exit", error |-> "none", df |-> Null, lines |-> <<>>]
             ELSE [status |-> "returned", error |-> "none", df |-> s.df,
                   lines |-> CheckLines(s.df, f.rows[1].per, a)] :
                s \in {s11}} : TRUE

----------------------------------------------------------------------------
(* cleaner.py: inputs *)

rTICKER == <<"<", "T", "I", "C", "K", "E", "R", ">">>
rPER == <<"<", "P", "E", "R", ">">>
rDATE == <<"<", "D", "A", "T", "E", ">">>
rTIME == <<"<", "T", "I", "M", "E", ">">>
rVOL == <<"<", "V", "O", "L", ">">>
QuikColumns == {rTICKER, rPER, rDATE, rTIME, rVOL}
CleanColumns == {cTICKER, cPER, cDATETIME, cVOL}

DateStr(d) == <<2, 0, 2, 3, 0, 1, d \div 10, d % 10>>
\* 9:55:00 written with five characters, 10:00:00 and 18:40:00
TimeStrs == {<<9, 5, 5, 0, 0>>, <<1, 0, 0, 0, 0, 0>>, <<1, 8, 4, 0, 0, 0>>}
RawDates == {1, 2}
IntVol(n) == [n |-> n, frac |-> FALSE, nan |-> FALSE]

\* tickers: plain, with a marker before or after the contract name, with a
\* marker inside the parts of another marker, with blanks
Tickers ==
    {<<"R", "I", "H", "3">>,
     <<"S", "P", "B", "F", "U", "T", ".", "R", "I", "H", "3">>,
     <<"R", "I", "H", "3", "@", "S", "P", "F", "B">>,
     <<" ", "R", "I", " ">>,
     <<"S", "P", "x", "S", "P", "F", "B", "y", "F", "B">>,
     <<"S", "P", "B", "F", ".", "S", "P", "F", "B", ".", "U", "T", ".", "R", "I">>}
DefaultTicker == <<"S", "P", "B", "F", "U", "T", ".", "R", "I", "H", "3">>

\* raw files of the terminal with every sequence of up to MaxRows bars
RowsFrames ==
    {[columns |-> QuikColumns, vol_dtype |-> "int64",
      rows |-> [i \in DOMAIN b |->
                  [index |-> i - 1, ticker |-> DefaultTicker, per |-> "60",
                   date |-> DateStr(b[i][1]), time |-> b[i][2],
                   datetime |-> NoDatetime, vol |-> IntVol(i)]]] :
        b \in UNION {[1..n -> RawDates \X TimeStrs] : n \in 0..MaxRows}}

\* two-bar files of every ticker
TickerFrames ==
    {[columns |-> QuikColumns, vol_dtype |-> "int64",
      rows |-> [i \in 1..2 |->
                  [index |-> i - 1, ticker |-> t, per |-> "5",
                   date |-> DateStr(1),
                   time |-> IF i = 1 THEN <<1, 0, 0, 0, 0, 0>>
                                     ELSE <<1, 0, 0, 5, 0, 0>>,
                   datetime |-> NoDatetime, vol |-> IntVol(i)]]] :
        t \in Tickers}

\* two-bar files of every layout: the columns present, the period values,
\* the kind of the volume values, an unparseable field in the first row
SchemaColumns ==
    {QuikColumns, QuikColumns \ {rVOL}, QuikColumns \ {rPER},
     QuikColumns \ {rTICKER}, {rTICKER, rPER, rVOL}, CleanColumns,
     CleanColumns \cup {cDATE, cTIME}}
SchemaFrames ==
    {[columns |-> cols,
      vol_dtype |-> IF cVOL \notin {NormalizeColumn(c) : c \in cols} THEN "absent"
                    ELSE IF volkind = "int" THEN "int64" ELSE "float64",
      rows |-> [i \in 1..2 |->
        LET has(c) == c \in {NormalizeColumn(x) : x \in cols}
        IN [index |-> i - 1,
            ticker |-> IF has(cTICKER) THEN DefaultTicker ELSE <<>>,
            per |-> IF ~has(cPER) THEN ""
                    ELSE IF perkind = "mixed" /\ i = 2 THEN "5"
                    ELSE IF perkind = "daily" THEN "daily" ELSE "60",
            date |-> IF ~has(cDATE) THEN NoDate
                     ELSE IF bad = "date" /\ i = 1 THEN DateStr(40)
                     ELSE DateStr(1),
            time |-> IF ~has(cTIME) THEN NoTime
                     ELSE IF bad = "time" /\ i = 1 THEN <<2, 5, 0, 0, 0, 0>>
                     ELSE IF i = 1 THEN <<1, 0, 0, 0>> ELSE <<1, 1, 0, 0, 0, 0>>,
            datetime |-> IF ~has(cDATETIME) THEN NoDatetime
                         ELSE IF bad = "datetime" /\ i = 1
                         THEN [date |-> 0, tod |-> 0]
                         ELSE [date |-> 1, tod |-> HMS(9 + i, 0, 0)],
            vol |-> IF ~has(cVOL) THEN NoVol
                    ELSE [n |-> i, frac |-> volkind # "int",
                          nan |-> volkind = "nan" /\ i = 2]]]] :
        cols \in SchemaColumns, perkind \in {"60", "daily", "mixed"},
        volkind \in {"int", "float", "nan"},
        bad \in {"none", "date", "time", "datetime"}}

RawFrames == RowsFrames \cup TickerFrames \cup SchemaFrames

CleanArgs ==
    {[DefaultArgs EXCEPT !.start_date = s, !.end_date = e,
                         !.extended_hours = x] :
        s \in {0, 2}, e \in {0, 1}, x \in BOOLEAN}
    \cup
    {[DefaultArgs EXCEPT !.keep_date_time = TRUE],
     [DefaultArgs EXCEPT !.stock = TRUE],
     [DefaultArgs EXCEPT !.check_only = TRUE],
     [DefaultArgs EXCEPT !.interactive = TRUE]}

----------------------------------------------------------------------------
(* cleaner.py: the run of the program *)

\* except Exception as error: print(...); exit(1)
\* a mutation: the error is printed and the run goes on to the save step
FailGoesOn(err) == pc' = "save" /\ exit_status' = exit_status /\ error' = err

Fail(err) == pc' = "exit" /\ exit_status' = 1 /\ error' = err

\* exit() at a prompt: SystemExit is no Exception, the status is 0
Quit == pc' = "exit" /\ exit_status' = 0 /\ error' = error

InitClean ==
    /\ prog = "cleaner" /\ pc = "check_args" /\ exit_status = -1
    /\ args \in CleanArgs
    /\ error = "none" /\ written = Null
    /\ df = Null /\ out = Null /\ again = Null
    /\ df1 = Null /\ df2 = Null /\ df1_dates = {} /\ df2_dates = {}
    /\ dest_df = Null
    /\ GridIdle /\ GapIdle

CleanCheckArgs ==
    /\ prog = "cleaner" /\ pc = "check_args"
    /\ \E source_is_file, dest_given, dest_parent_is_dir, answer_n \in BOOLEAN :
         IF ~source_is_file THEN Fail("Filename doesn't exist")
         ELSE IF dest_given /\ ~dest_parent_is_dir
         THEN Fail("Destination path doesn't exist")
         ELSE IF args.interactive /\ answer_n THEN Quit
         ELSE pc' = "load" /\ UNCHANGED <<exit_status, error>>
    /\ UNCHANGED <<prog, args, written>>
    /\ UNCHANGED <<gridVars, gapVars, cleanVars, mergeVars>>

\* load_source_file: read_csv raises or gives the frame of the file
CleanLoad ==
    /\ prog = "cleaner" /\ pc = "load"
    /\ \/ Fail("read_csv") /\ UNCHANGED df
       \/ /\ df' \in RawFrames
          /\ pc' = "process" /\ UNCHANGED <<exit_status, error>>
    /\ UNCHANGED <<prog, args, written, out, again>>
    /\ UNCHANGED <<gridVars, gapVars, mergeVars>>

CleanProcess ==
    /\ prog = "cleaner" /\ pc = "process"
    /\ \E answer_n \in BOOLEAN :
         LET r == process_dataframe(df, args, answer_n)
         IN  CASE r.status = "raised" ->
                    Fail(r.error) /\ UNCHANGED <<out, report>>
               [] r.status = "exit" -> Quit /\ UNCHANGED <<out, report>>
               [] OTHER -> /\ out' = r.df /\ report' = r.lines
                           /\ pc' = "save" /\ UNCHANGED <<exit_status, error>>
    /\ UNCHANGED <<prog, args, written, df, again>>
    /\ UNCHANGED <<gap_df, gap_period, full_times_set, gap_pc>>
    /\ UNCHANGED <<gridVars, mergeVars>>

\* process_dataframe called once more, on the frame it returned and with the
\* same options
CleanProcessAgain ==
    /\ prog = "cleaner" /\ pc = "save" /\ again = Null /\ error = "none"
    /\ again' = process_dataframe(out, args, FALSE)
    /\ UNCHANGED <<df, out, runVars, gridVars, gapVars, mergeVars>>

\* save_to_dest_file; a failed to_csv leaves no file or a part of one
CleanSave ==
    /\ prog = "cleaner" /\ pc = "save"
    /\ IF args.check_only
       THEN /\ pc' = "exit" /\ exit_status' = 0
            /\ UNCHANGED <<error, written>>
       ELSE \/ /\ written' = [status |-> "written", data |-> out]
               /\ pc' = "exit" /\ exit_status' = 0 /\ UNCHANGED error
            \/ /\ written' \in {written, [status |-> "partial"]}
               /\ Fail("to_csv")
    /\ UNCHANGED <<prog, args>>
    /\ UNCHANGED <<gridVars, gapVars, cleanVars, mergeVars>>

NextClean ==
    CleanCheckArgs \/ CleanLoad \/ CleanProcess \/ CleanProcessAgain \/ CleanSave

SpecClean == InitClean /\ [][NextClean]_vars

----------------------------------------------------------------------------
(* merger.py: check_source_data and merge_data *)

cCLOSE == <<"c", "l", "o", "s", "e">>

\* a frame of the merger: [columns, dtypes, rows], dtypes a function on the
\* columns; a row: [datetime, vol, ticker]

\* the first exception check_source_data raises, or "none"
check_source_data(a, b) ==
    LET one(f, name) ==
            IF cDATETIME \notin f.columns THEN "No 'datetime' column in " \o name
            ELSE IF cVOL \notin f.columns THEN "No 'vol' column in " \o name
            ELSE IF f.dtypes[cVOL] # "int64" THEN "'vol' is not integer in " \o name
            ELSE "none"
    IN  IF one(a, "file_1") # "none" THEN one(a, "file_1")
        ELSE IF one(b, "file_2") # "none" THEN one(b, "file_2")
        ELSE IF b.columns # a.columns THEN "Source files have different columns"
        ELSE IF \E c \in a.columns : a.dtypes[c] # b.dtypes[c]
        THEN "Files have different data types"
        ELSE "none"

DatesOf(rows) == {rows[i].datetime.date : i \in DOMAIN rows}

RECURSIVE SumVol(_)
SumVol(rows) == IF rows = <<>> THEN 0 ELSE Head(rows).vol + SumVol(Tail(rows))

\* df.groupby(df['datetime'].dt.date)['vol'].sum(): date -> total volume
DailyVol(rows) ==
    [d \in DatesOf(rows) |-> SumVol(SelectSeq(rows, LAMBDA r : r.datetime.date = d))]

\* a mutation: a date of equal totals is not taken from the first file
Df1DatesStrict(v1, v2) ==
    (DOMAIN v1 \ DOMAIN v2)
    \cup {d \in DOMAIN v1 \cup DOMAIN v2 :
            d \in DOMAIN v1 /\ d \in DOMAIN v2 /\ v1[d] - v2[d] > 0}

\* a mutation: the dates that only the first file has are left out
Df1DatesSharedOnly(v1, v2) ==
    {d \in DOMAIN v1 \cup DOMAIN v2 :
        d \in DOMAIN v1 /\ d \in DOMAIN v2 /\ v1[d] - v2[d] >= 0}

\* df1_dates; df1_vol - df2_vol is NaN, hence not >= 0, on a date that only
\* one of the two has
Df1Dates(v1, v2) ==
    (DOMAIN v1 \ DOMAIN v2)
    \cup {d \in DOMAIN v1 \cup DOMAIN v2 :
            d \in DOMAIN v1 /\ d \in DOMAIN v2 /\ v1[d] - v2[d] >= 0}

\* a mutation: the dates of the first file are not taken out
Df2DatesAll(v2, dates1) == DOMAIN v2

\* df2_dates
Df2Dates(v2, dates1) == DOMAIN v2 \ dates1

\* [status, error, df, df1_dates, df2_dates]: the frame returned, with the
\* two sets of dates the function works with, or the error raised
merge_data(a, b, ar) ==
    LET from(f) == IF ar.start_date # 0
                   THEN Filter(f, LAMBDA r : r.datetime.date >= ar.start_date)
                   ELSE f
        till(f) == IF ar.end_date # 0
                   THEN Filter(f, LAMBDA r : r.datetime.date <= ar.end_date)
                   ELSE f
        d1 == till(from(a))
        d2 == till(from(b))
        df1_vol == DailyVol(d1.rows)
        df2_vol == DailyVol(d2.rows)
        dates1 == Df1Dates(df1_vol, df2_vol)
        dates2 == Df2Dates(df2_vol, dates1)
        new_df == [d1 EXCEPT !.rows = sort_values(
                      SelectSeq(d1.rows, LAMBDA r : r.datetime.date \in dates1)
                      \o SelectSeq(d2.rows, LAMBDA r : r.datetime.date \in dates2))]
        raised(err) == [status |-> "raised", error |-> err, df |-> Null,
                        df1_dates |-> {}, df2_dates |-> {}]
    IN  \* the dates and tickers of each file are printed first
        IF cTICKER \notin a.columns THEN raised("KeyError: 'ticker'")
        ELSE IF a.rows = <<>> \/ b.rows = <<>>
        THEN raised("ValueError: min of no dates")
        ELSE IF new_df.rows = <<>> THEN raised("ValueError: min of no dates")
        ELSE [status |-> "returned", error |-> "none", df |-> new_df,
              df1_dates |-> dates1, df2_dates |-> dates2]

----------------------------------------------------------------------------
(* merger.py: inputs and the run of the program *)

MergeTimes == {HMS(10, 0, 0), HMS(10, 5, 0)}
MergeVols == {1, 2}
TickerA == <<"R", "I", "H", "3">>
TickerB == <<"R", "I", "M", "3">>

GoodDtypes == (cDATETIME :> "datetime64") @@ (cVOL :> "int64")
              @@ (cTICKER :> "object") @@ (cCLOSE :> "float64")

\* cleaned series: up to MaxSeriesRows bars of strictly increasing timestamp
SeriesRows(t) ==
    {[i \in DOMAIN b |-> [datetime |-> [date |-> b[i][1], tod |-> b[i][2]],
                          vol |-> b[i][3], ticker |-> t]] :
        b \in {c \in UNION {[1..n -> (1..MaxDate) \X MergeTimes \X MergeVols] :
                              n \in 0..MaxSeriesRows} :
                 \A i, j \in DOMAIN c :
                     i < j => c[i][1] * DaySeconds + c[i][2]
                              < c[j][1] * DaySeconds + c[j][2]}}

SeriesColumns == {cDATETIME, cVOL, cTICKER}
SeriesFrame(rows) ==
    [columns |-> SeriesColumns,
     dtypes |-> [c \in SeriesColumns |-> GoodDtypes[c]], rows |-> rows]

\* one-bar series of every layout
LayoutFrames(t) ==
    {[columns |-> cols,
      dtypes |-> [c \in cols |-> IF c = cVOL THEN voltype ELSE GoodDtypes[c]],
      rows |-> <<[datetime |-> [date |-> 1, tod |-> HMS(10, 0, 0)],
                  vol |-> 1, ticker |-> t]>>] :
        cols \in {SeriesColumns, SeriesColumns \ {cDATETIME},
                  SeriesColumns \ {cVOL}, SeriesColumns \ {cTICKER},
                  SeriesColumns \cup {cCLOSE}},
        voltype \in {"int64", "float64"}}

MergeInputs ==
    {<<SeriesFrame(a), SeriesFrame(b)>> :
        a \in SeriesRows(TickerA), b \in SeriesRows(TickerB)}
    \cup (LayoutFrames(TickerA) \X LayoutFrames(TickerB))

MergeArgs ==
    {DefaultArgs,
     [DefaultArgs EXCEPT !.start_date = MaxDate],
     [DefaultArgs EXCEPT !.end_date = 1],
     [DefaultArgs EXCEPT !.check_only = TRUE],
     [DefaultArgs EXCEPT !.interactive = TRUE]}

InitMerge ==
    /\ prog = "merger" /\ pc = "check_args" /\ exit_status = -1
    /\ args \in MergeArgs
    /\ error = "none" /\ written = Null
    /\ df = Null /\ out = Null /\ again = Null
    /\ df1 = Null /\ df2 = Null /\ df1_dates = {} /\ df2_dates = {}
    /\ dest_df = Null
    /\ GridIdle /\ GapIdle

MergeCheckArgs ==
    /\ prog = "merger" /\ pc = "check_args"
    /\ \E file_1_is_file, file_2_is_file, dest_parent_is_dir, answer_n \in BOOLEAN :
         IF ~file_1_is_file THEN Fail("Filename 1 doesn't exist")
         ELSE IF ~file_2_is_file THEN Fail("Filename 2 doesn't exist")
         ELSE IF ~args.check_only /\ ~dest_parent_is_dir
         THEN Fail("Destination path doesn't exist")
         ELSE IF args.interactive /\ answer_n THEN Quit
         ELSE pc' = "load" /\ UNCHANGED <<exit_status, error>>
    /\ UNCHANGED <<prog, args, written>>
    /\ UNCHANGED <<gridVars, gapVars, cleanVars, mergeVars>>

\* load_source_files: read_csv(parse_dates=['datetime']) raises when a
\* file cannot be read or has no 'datetime' column
MergeLoad ==
    /\ prog = "merger" /\ pc = "load"
    /\ \/ Fail("read_csv") /\ UNCHANGED <<df1, df2>>
       \/ \E in \in MergeInputs :
            IF cDATETIME \notin in[1].columns \/ cDATETIME \notin in[2].columns
            THEN Fail("read_csv: no 'datetime' column") /\ UNCHANGED <<df1, df2>>
            ELSE /\ df1' = in[1] /\ df2' = in[2]
                 /\ pc' = "check_source_data" /\ UNCHANGED <<exit_status, error>>
    /\ UNCHANGED <<prog, args, written, dest_df, df1_dates, df2_dates>>
    /\ UNCHANGED <<gridVars, gapVars, cleanVars>>

MergeCheckSourceData ==
    /\ prog = "merger" /\ pc = "check_source_data"
    /\ IF check_source_data(df1, df2) # "none"
       THEN Fail(check_source_data(df1, df2))
       ELSE pc' = "merge_data" /\ UNCHANGED <<exit_status, error>>
    /\ UNCHANGED <<prog, args, written>>
    /\ UNCHANGED <<gridVars, gapVars, cleanVars, mergeVars>>

MergeData ==
    /\ prog = "merger" /\ pc = "merge_data"
    /\ LET r == merge_data(df1, df2, args)
       IN  IF r.status = "raised"
           THEN Fail(r.error) /\ UNCHANGED <<dest_df, df1_dates, df2_dates>>
           ELSE /\ dest_df' = r.df
                /\ df1_dates' = r.df1_dates /\ df2_dates' = r.df2_dates
                /\ pc' = "save" /\ UNCHANGED <<exit_status, error>>
    /\ UNCHANGED <<prog, args, written, df1, df2>>
    /\ UNCHANGED <<gridVars, gapVars, cleanVars>>

MergeSave ==
    /\ prog = "merger" /\ pc = "save"
    /\ IF args.check_only
       THEN /\ pc' = "exit" /\ exit_status' = 0
            /\ UNCHANGED <<error, written>>
       ELSE \/ /\ written' = [status |-> "written", data |-> dest_df]
               /\ pc' = "exit" /\ exit_status' = 0 /\ UNCHANGED error
            \/ /\ written' \in {written, [status |-> "partial"]}
               /\ Fail("to_csv")
    /\ UNCHANGED <<prog, args>>
    /\ UNCHANGED <<gridVars, gapVars, cleanVars, mergeVars>>

NextMerge ==
    MergeCheckArgs \/ MergeLoad \/ MergeCheckSourceData \/ MergeData \/ MergeSave

SpecMerge == InitMerge /\ [][NextMerge]_vars

\* either program
Init == InitClean \/ InitMerge
Next == NextClean \/ NextMerge
Spec == Init /\ [][Next]_vars

----------------------------------------------------------------------------
(* Properties of the session time grid *)

\* the times start + k*period minutes strictly before e, without the times
\* of the settlement break when the break applies
GridTimes(s, e, p, skip) ==
    {t \in {s + k * p * 60 : k \in 0..(DaySeconds \div (p * 60))} :
        /\ t < e
        /\ skip \/ ~(Hour(t) = 14 /\ Minute(t) \in 0..4)}

Ascending(l) == \A i, j \in DOMAIN l : i < j => l[i] < l[j]

\* C3: with start <= end the function returns, in ascending order, exactly
\* the times start + k*period that are strictly before end, a time being
\* omitted if and only if skip_daily_clearing is false and the time has
\* hour 14 and minute 0..4.
C3_GridAsSpecified ==
    (grid_pc = "returned") =>
        /\ Ascending(full_list_of_daily_bar_times)
        /\ Range(full_list_of_daily_bar_times) =
               GridTimes(start_time, end_time, period_min, skip_daily_clearing)

\* C4: for every start <= end and positive period the loop reaches a state
\* where the current time-of-day is not < end_time, also when a step carries
\* the running datetime past midnight first.
C4_GridTerminates ==
    (grid_pc = "loop") ~> (grid_pc = "returned")

\* the five times of the settlement break
ClearingTimes == {HMS(14, m, 0) : m \in 0..4}

\* C9 as stated: for [10:00, 18:40) and 5 minutes, with the exclusion
\* enabled the grid excludes exactly 14:00..14:04 and otherwise holds one
\* time every 5 minutes; with the exclusion disabled those five times are
\* all in the grid.
C9_FiveTimesPresent ==
    (gap_pc \in {"ok", "warned"} /\ gap_period = 5) =>
        IF args.stock
        THEN ClearingTimes \subseteq full_times_set
        ELSE full_times_set = SessionSlots(5) \ ClearingTimes

\* C9 as amended: with the exclusion enabled the grid is the 5-minute times
\* of [10:00, 18:40) without 14:00, and none of 14:00..14:04 is in it; with
\* the exclusion disabled it is all the 5-minute times, so of the five times
\* only 14:00 is in it.
C9_GridFiveMinutes ==
    (gap_pc \in {"ok", "warned"} /\ gap_period = 5) =>
        IF args.stock
        THEN /\ full_times_set = SessionSlots(5)
             /\ ClearingTimes \cap full_times_set = {HMS(14, 0, 0)}
        ELSE /\ full_times_set = SessionSlots(5) \ {HMS(14, 0, 0)}
             /\ ClearingTimes \cap full_times_set = {}

C9_Witness ==
    /\ gap_pc \in {"ok", "warned"} /\ gap_period = 5 /\ ~args.stock
    /\ Cardinality(full_times_set) = 103
    /\ HMS(14, 5, 0) \in full_times_set

----------------------------------------------------------------------------
(* Properties of the gap detector *)

TimesOn(datetimes, d) == {x.tod : x \in {y \in datetimes : y.date = d}}
LinesOf(d) == {i \in DOMAIN report : report[i].date = d}

\* C7: a date of the series has a report line if and only if bars are
\* missing or irregular on it; the line carries the number of missing bars
\* with the least and the greatest of them, and the number of irregular
\* bars with the greatest of them.
C7_GapReport ==
    (gap_pc \in {"ok", "warned"}) =>
        /\ \A i \in DOMAIN report : report[i].date \in {x.date : x \in gap_df}
        /\ \A d \in {x.date : x \in gap_df} :
             LET missing == full_times_set \ TimesOn(gap_df, d)
                 irregular == TimesOn(gap_df, d) \ full_times_set
             IN  /\ Cardinality(LinesOf(d)) =
                        IF missing # {} \/ irregular # {} THEN 1 ELSE 0
                 /\ \A i \in LinesOf(d) :
                      /\ (missing = {}) = (report[i].missing = <<>>)
                      /\ missing # {} =>
                           /\ report[i].missing[1] = Cardinality(missing)
                           /\ report[i].missing[3] \in missing
                           /\ report[i].missing[4] \in missing
                           /\ \A t \in missing : /\ report[i].missing[3] <= t
                                                 /\ t <= report[i].missing[4]
                      /\ (irregular = {}) = (report[i].irregular = <<>>)
                      /\ irregular # {} =>
                           /\ report[i].irregular[1] = Cardinality(irregular)
                           /\ report[i].irregular[2] \in irregular
                           /\ \A t \in irregular : t <= report[i].irregular[2]

\* a date with only irregular bars is reported, next to a date with exactly
\* one missing bar, whose two bounds are that bar
C7_Witness ==
    /\ gap_pc = "warned"
    /\ \E i \in DOMAIN report :
         report[i].missing = <<>> /\ report[i].irregular # <<>>
    /\ \E i \in DOMAIN report :
         /\ report[i].missing # <<>>
         /\ report[i].missing[1] = 1
         /\ report[i].missing[3] = report[i].missing[4]


----------------------------------------------------------------------------
(* Properties of the cleaning pipeline *)

\* the timestamp process_dataframe gives a row of the raw frame
StampOf(f, r) ==
    IF {cDATE, cTIME} \subseteq {NormalizeColumn(c) : c \in f.columns}
    THEN [date |-> ParseDate(r.date), tod |-> ParseTime(PadTime(r.time))]
    ELSE r.datetime

\* the rows of the raw frame that pass the date and session filters
Survives(f, a, r) ==
    /\ a.start_date # 0 => StampOf(f, r).date >= a.start_date
    /\ a.end_date # 0 => StampOf(f, r).date <= a.end_date
    /\ ~a.extended_hours =>
           StampOf(f, r).tod >= MKT_OPEN /\ StampOf(f, r).tod < MKT_CLOSE
Survivors(f, a) == {i \in DOMAIN f.rows : Survives(f, a, f.rows[i])}

\* C5: the timestamps of the series process_dataframe returns are strictly
\* increasing, and of the rows of one timestamp that pass the date and
\* session filters the row kept is the first in input order.
C5_CleanedOrdering ==
    (out # Null) =>
        /\ \A i, j \in DOMAIN out.rows :
               i < j => Key(out.rows[i].datetime) < Key(out.rows[j].datetime)
        /\ {out.rows[i].index : i \in DOMAIN out.rows} =
               {df.rows[i].index : i \in
                   {k \in Survivors(df, args) :
                       \A j \in Survivors(df, args) :
                           StampOf(df, df.rows[j]) = StampOf(df, df.rows[k])
                               => k <= j}}

\* a returned series of two rows or more, which lost a duplicate and whose
\* rows are not in input order
C5_Witness ==
    /\ out # Null /\ Len(out.rows) >= 2
    /\ Len(out.rows) < Cardinality(Survivors(df, args))
    /\ \E i, j \in DOMAIN out.rows : i < j /\ out.rows[i].index > out.rows[j].index

\* C6: process_dataframe run again, with the same options, on the series
\* it returned succeeds and returns that series unchanged (rows, order,
\* ticker, timestamp and volume values).
C6_Idempotent ==
    (again # Null) => (again.status = "returned" /\ again.df = out)

----------------------------------------------------------------------------
(* Properties of the merge resolver *)

Restricted(rows, a) ==
    SelectSeq(rows, LAMBDA r : /\ a.start_date # 0 => r.datetime.date >= a.start_date
                               /\ a.end_date # 0 => r.datetime.date <= a.end_date)
RowsOn(rows, d) == SelectSeq(rows, LAMBDA r : r.datetime.date = d)
VolOn(rows, d) == SumVol(RowsOn(rows, d))
Merged == dest_df # Null

\* C1: for every date d of series A or B (after the start/end restriction)
\* the merged output holds exactly A's rows of d when d is only in A or
\* is in both with sum(vol A) - sum(vol B) >= 0, and exactly B's rows of d
\* otherwise.
C1_DaySelection ==
    Merged =>
        LET A == Restricted(df1.rows, args)
            B == Restricted(df2.rows, args)
        IN  /\ DatesOf(dest_df.rows) = DatesOf(A) \cup DatesOf(B)
            /\ \A d \in DatesOf(A) \cup DatesOf(B) :
                 RowsOn(dest_df.rows, d) =
                     IF d \notin DatesOf(B)
                        \/ (d \in DatesOf(A) /\ VolOn(A, d) - VolOn(B, d) >= 0)
                     THEN RowsOn(A, d) ELSE RowsOn(B, d)

\* a date of equal totals comes from A, a date where B has more from B
C1_Witness ==
    /\ Merged
    /\ \E d \in DatesOf(df1.rows) \cap DatesOf(df2.rows) :
         /\ VolOn(df1.rows, d) = VolOn(df2.rows, d)
         /\ RowsOn(dest_df.rows, d) = RowsOn(df1.rows, d)
    /\ \E d \in DatesOf(df1.rows) \cap DatesOf(df2.rows) :
         /\ VolOn(df1.rows, d) < VolOn(df2.rows, d)
         /\ RowsOn(dest_df.rows, d) = RowsOn(df2.rows, d)

TickersOn(rows, d) == {rows[i].ticker : i \in {k \in DOMAIN rows : rows[k].datetime.date = d}}

\* C2 as stated: df1_dates and df2_dates are disjoint and together are
\* the dates of the two inputs, so no date of the output has rows of both
\* series and no date of an input is lost.
C2_NoInputDateLost ==
    Merged =>
        /\ df1_dates \cap df2_dates = {}
        /\ df1_dates \cup df2_dates = DatesOf(df1.rows) \cup DatesOf(df2.rows)
        /\ \A d \in DatesOf(dest_df.rows) : Cardinality(TickersOn(dest_df.rows, d)) = 1
        /\ DatesOf(dest_df.rows) = DatesOf(df1.rows) \cup DatesOf(df2.rows)

\* C2 as amended: df1_dates and df2_dates are disjoint and together are
\* the dates of the two inputs that lie within the optional start/end
\* dates, so no date of the output has rows of both series and no such date
\* is lost.
C2_SourceExclusivity ==
    Merged =>
        LET A == Restricted(df1.rows, args)
            B == Restricted(df2.rows, args)
        IN  /\ df1_dates \cap df2_dates = {}
            /\ df1_dates \cup df2_dates = DatesOf(A) \cup DatesOf(B)
            /\ \A d \in DatesOf(dest_df.rows) :
                   Cardinality(TickersOn(dest_df.rows, d)) = 1
            /\ DatesOf(dest_df.rows) = DatesOf(A) \cup DatesOf(B)

\* both series give dates, on a date both have, and a date before the
\* start date is dropped
C2_Witness ==
    /\ Merged /\ args.start_date # 0
    /\ df2_dates # {}
    /\ DatesOf(Restricted(df1.rows, args)) \cap DatesOf(Restricted(df2.rows, args)) # {}
    /\ \E d \in DatesOf(df1.rows) : d \notin DatesOf(dest_df.rows)

DistinctStamps(rows) ==
    \A i, j \in DOMAIN rows : i # j => rows[i].datetime # rows[j].datetime

\* C10: if each input has pairwise distinct timestamps, the merged output
\* has strictly increasing timestamps, also when the inputs share timestamps
\* on dates both have.
C10_MergedOrdering ==
    (Merged /\ DistinctStamps(df1.rows) /\ DistinctStamps(df2.rows)) =>
        \A i, j \in DOMAIN dest_df.rows :
            i < j => Key(dest_df.rows[i].datetime) < Key(dest_df.rows[j].datetime)

\* the inputs share a timestamp, the output has rows of both, and a row of
\* the second series comes before a row of the first
C10_Witness ==
    /\ Merged
    /\ \E i \in DOMAIN df1.rows, j \in DOMAIN df2.rows :
           df1.rows[i].datetime = df2.rows[j].datetime
    /\ \E i, j \in DOMAIN dest_df.rows :
           /\ i < j
           /\ dest_df.rows[i].ticker = TickerB
           /\ dest_df.rows[j].ticker = TickerA

----------------------------------------------------------------------------
(* Properties of the two runs *)

\* C8: in both runs the destination file is written only when every stage
\* before the save has completed without raising; when a stage raises, the
\* run ends with status 1 and nothing is written; a schema mismatch of
\* the merge inputs is found before any row is selected.
C8_NoOutputOnFailure ==
    /\ (written # Null /\ written.status = "written") =>
          /\ error = "none" /\ exit_status = 0 /\ ~args.check_only
          /\ prog = "cleaner" => df # Null /\ out # Null /\ written.data = out
          /\ prog = "merger" =>
                /\ df1 # Null /\ df2 # Null
                /\ check_source_data(df1, df2) = "none"
                /\ Merged /\ written.data = dest_df
    /\ error \notin {"none", "to_csv"} =>
          pc = "exit" /\ exit_status = 1 /\ written = Null
    /\ error = "to_csv" => pc = "exit" /\ exit_status = 1
    /\ exit_status = 1 => error # "none"
    /\ (prog = "merger" /\ df1 # Null /\ check_source_data(df1, df2) # "none") =>
          ~Merged /\ written = Null /\ pc \in {"check_source_data", "exit"}

\* a merge run stopped by a column mismatch
C8_Witness ==
    /\ prog = "merger" /\ error = "Source files have different columns"
    /\ pc = "exit" /\ exit_status = 1 /\ written = Null /\ ~Merged

====
